---- MODULE Spec2Model ----
(***************************************************************************)
(* Model of the mcp-perplexity tool backend: the py_eval sandbox, the      *)
(* tool-notes store, the request logger, the request-log query and the     *)
(* five search and research tools.                                         *)
(*                                                                         *)
(* Text is a sequence of one-character strings.  The wall clock counts     *)
(* half seconds, so that a timestamp has a zero or a non-zero fraction.    *)
(***************************************************************************)
EXTENDS Integers, Sequences, FiniteSets, TLC

VARIABLES
    now,         \* wall clock, in half seconds since the start of the minute
    ticks,       \* clock advances so far
    calls,       \* tool calls started so far
    posix,       \* os.name == "posix" and signal has setitimer
    disk_ok,     \* the data directory and its subdirectories can be written
    pc,          \* position of the running tool call, "idle" between calls
    call,        \* arguments of the running py_eval call
    started,     \* py_eval: started
    buf_out,     \* py_eval: buf_out
    buf_err,     \* py_eval: buf_err
    old_targets, \* redirect_stdout/redirect_stderr: the streams to put back
    sys_stdout,  \* what sys.stdout is bound to: "host", "buf" or "other"
    sys_stderr,  \* what sys.stderr is bound to: "host", "buf" or "other"
    host_out,    \* text that reached the host's real standard output in this call
    env,         \* py_eval: env, the names bound in the namespace of the call
    ip,          \* index of the next statement of the executed code
    exc,         \* the exception in flight
    handler,     \* the SIGALRM handler of the process
    old_handler, \* _TL.old_handler
    timer,       \* ITIMER_REAL: armed or not, and the clock value at which it expires
    ret,         \* what the last tool call handed to its caller
    written,     \* history: what the code of this call wrote to standard output
    fired,       \* history: where this call was when the alarm went off, or "no"
    fault,       \* history: the exception the code of this call raised itself
    leaked,      \* history: names bound by the code of earlier calls
    requests,    \* requests/ : file name -> record
    last_log,    \* history: the last log_request call
    notes_dir,   \* tool_notes/ : file name -> content
    saves,       \* history: the save_tool_notes calls that reported success
    csv_dir,     \* data directory: file name -> rows of a CSV file
    log_ok,      \* requests/ can be written and the record can be serialized
    api_key,     \* os.getenv("PERPLEXITY_API_KEY")
    search,      \* arguments of the running search tool call, exception in flight
    posts,       \* history: the HTTP POSTs the running search tool call has sent
    json_dir,    \* data directory: file name -> saved API response
    savers       \* save_tool_notes calls running side by side: thread -> position

vars == <<now, ticks, calls, posix, disk_ok, pc, call, started, buf_out, buf_err,
          old_targets, sys_stdout, sys_stderr, host_out, env, ip, exc,
          handler, old_handler, timer, ret, written, fired, fault,
          leaked, requests, last_log, notes_dir, saves, csv_dir, log_ok, api_key, search, posts, json_dir,
          savers>>

evalVars == <<pc, call, started, buf_out, buf_err, old_targets, sys_stdout,
              sys_stderr, host_out, env, ip, exc, handler, old_handler,
              timer, written, fired, fault, leaked>>

----------------------------------------------------------------------------
(* Bounds *)

MaxTicks == 2
MaxCalls == 2
MaxToolCalls == 3

----------------------------------------------------------------------------
(* Values *)

Off == [armed |-> FALSE, at |-> 0]
None == <<"None">>
NoExc == [type |-> "none", msg |-> <<>>]
NoCall == [requester |-> <<>>, code |-> [stmts |-> <<>>, pad |-> 0], timeout_sec |-> 0]
Nothing == [type |-> "none", v |-> <<>>]
NoRet == [tool |-> "none", raised |-> "none", value |-> Nothing]
NoLog == [file |-> <<>>, record |-> Nothing, written |-> FALSE]
NoSearch == [tool |-> "none", reasoning_effort |-> "None", exc |-> NoExc, files |-> {}]

\* os.getenv("PERPLEXITY_API_KEY"): not set, set to nothing, or set to a key
ApiKeys == {None, <<>>, <<"k">>}

\* int(time.time() * 1000), for a clock that counts half seconds
MsPerTick == 1000 \div 2

\* code[:500] + "..." if len(code) > 500 else code
CodeLogLimit == 500

EvalRequesters == { <<"u", " ", "1">> }
NoteRequesters == { <<"u">> }
LogRequesters == { <<"u">> }

\* The statements the submitted code is made of.
Stmts == {"print_a", "print_b", "eprint", "assign_x", "read_x",
          "raise_ValueError", "raise_TimeoutError", "raise_SystemExit",
          "loop", "try_loop", "rebind_stdout", "rebind_stderr"}

Code(p, n) == [stmts |-> p, pad |-> n]

\* py_eval arguments (code, timeout_sec); timeout_sec in half seconds.
EvalInputs ==
    { <<Code(<<"print_a", "eprint", "print_b">>, 0), 1>>,
      <<Code(<<"print_a", "print_b">>, CodeLogLimit - 2), 1>>,
      <<Code(<<"print_a", "print_b">>, CodeLogLimit - 1), 1>>,
      <<Code(<<"assign_x", "read_x">>, 0), 1>>,
      <<Code(<<"read_x">>, 0), 1>>,
      <<Code(<<"print_a", "raise_ValueError">>, 0), 1>>,
      <<Code(<<"raise_TimeoutError">>, 0), 1>>,
      <<Code(<<"raise_SystemExit">>, 0), 1>>,
      <<Code(<<"print_a", "loop">>, 0), 1>>,
      <<Code(<<"loop">>, 0), 0>>,
      <<Code(<<"try_loop", "print_b">>, 0), 1>>,
      <<Code(<<"rebind_stdout", "print_a", "rebind_stderr">>, 0), 1>>,
      <<Code(<<"print_a">>, 0), -1>> }

\* The text of a code string: its statements, then a trailing comment.
Text(code) == code.stmts \o [i \in 1..code.pad |-> "#"]

Ellipsis == <<".", ".", ".">>

----------------------------------------------------------------------------
(* request_logger.py *)

IsAlnum(c) == c \in {"u", "v", "a", "b", "t", "0", "1", "2"}

SafeRequester(requester) ==
    [i \in 1..Len(requester) |->
        IF IsAlnum(requester[i]) \/ requester[i] \in {"-", "_"}
        THEN requester[i] ELSE "_"]

MaxOutputLength == 50000

\* Tool results: a string (text) or a dict (record), as isinstance tells them apart.
Str(s) == [type |-> "str", v |-> s]
Dict(d) == [type |-> "dict", v |-> d]

SerializeOutput(output) ==
    IF output.type = "str" /\ Len(output.v) > MaxOutputLength
    THEN Str(SubSeq(output.v, 1, MaxOutputLength) \o <<"\n... [TRUNCATED]">>)
    ELSE output

DigitChars == <<"0", "1", "2", "3", "4", "5", "6", "7", "8", "9">>
Digit(n) == DigitChars[n + 1]

\* The date, hour and minute of every timestamp of the run.
DatePrefix == <<"2024-12-22T10:00:">>
UtcSuffix == <<"+", "0", "0", ":", "0", "0">>

\* The same date, hour and minute with another character between date and time.
AltPrefix == <<"2024-12-22X10:00:">>

\* datetime.now(timezone.utc).isoformat(): the fraction is left out when it is zero.
IsoFormat(t) ==
    LET sec == t \div 2
        half == t % 2
    IN  DatePrefix \o <<Digit(sec \div 10), Digit(sec % 10)>>
        \o (IF half = 0 THEN <<>> ELSE <<".", "5", "0", "0", "0", "0", "0">>)
        \o UtcSuffix

Range(f) == {f[i] : i \in DOMAIN f}

Put(f, k, v) == [x \in (DOMAIN f) \cup {k} |-> IF x = k THEN v ELSE f[x]]

LogFile(requester, tool_name) == <<now * MsPerTick, tool_name, SafeRequester(requester)>>

LogRecord(requester, tool_name, input_params, output_result) ==
    [timestamp_ms |-> now * MsPerTick,
     timestamp_iso |-> IsoFormat(now),
     requester |-> requester,
     tool_name |-> tool_name,
     input_params |-> input_params,
     output_result |-> SerializeOutput(output_result)]

\* log_request: the record is written unless open() or json.dump() fails,
\* and the failure is swallowed.
log_request(requester, tool_name, input_params, output_result) ==
    LET file == LogFile(requester, tool_name)
        record == LogRecord(requester, tool_name, input_params, output_result)
    IN  /\ requests' = IF log_ok THEN Put(requests, file, record) ELSE requests
        /\ last_log' = [file |-> file, record |-> record, written |-> log_ok]

\* A failure to write the record leaves log_request as an exception.
LogFailurePropagates(ok) == ~ok

\* except Exception in log_request: the failure is reported to the logger and
\* not raised.
LogFailureRaised(ok) == FALSE

\* log_request(...) followed by return result: what the caller of the tool
\* gets.  An exception out of log_request would leave the tool.
ToolReturn(tool, result) ==
    IF LogFailureRaised(log_ok)
    THEN [tool |-> tool, raised |-> "OSError", value |-> Nothing]
    ELSE [tool |-> tool, raised |-> "none", value |-> result]

----------------------------------------------------------------------------
(* mcp_service.py: _posix_time_limit and py_eval *)

AlarmDue == timer.armed /\ now >= timer.at

\* The alarm facility taken for granted.
AlarmAssumed == TRUE

\* self_.posix = (os.name == "posix" and hasattr(signal, "setitimer"))
SelfPosix == posix

Running == pc # "idle"

\* The cut without the marker.
TruncateCodeNoMark(text) ==
    IF Len(text) > CodeLogLimit THEN SubSeq(text, 1, CodeLogLimit) ELSE text

TruncateCode(text) ==
    IF Len(text) > CodeLogLimit
    THEN SubSeq(text, 1, CodeLogLimit) \o Ellipsis
    ELSE text

\* A namespace kept for the life of the process instead of made per call.
SharedEnv == {"__builtins__", "pd", "np", "CSV_PATH"} \cup leaked

\* env = {"__builtins__": ..., "pd": ..., "np": ..., "CSV_PATH": ...}
FreshEnv == {"__builtins__", "pd", "np", "CSV_PATH"}

\* py_eval is called: the buffers, the start time and the namespace are made,
\* redirect_stdout and redirect_stderr are entered.
PyEvalCall ==
    /\ pc = "idle"
    /\ calls < MaxCalls
    /\ \E r \in EvalRequesters, in \in EvalInputs :
          call' = [requester |-> r, code |-> in[1], timeout_sec |-> in[2]]
    /\ calls' = calls + 1
    /\ started' = now
    /\ buf_out' = <<>>
    /\ buf_err' = <<>>
    /\ env' = FreshEnv
    /\ old_targets' = [out |-> sys_stdout, err |-> sys_stderr]
    /\ sys_stdout' = "buf"
    /\ sys_stderr' = "buf"
    /\ ip' = 1
    /\ exc' = NoExc
    /\ written' = <<>>
    /\ fired' = "no"
    /\ host_out' = <<>>
    /\ fault' = "none"
    /\ ret' = NoRet
    /\ last_log' = NoLog
    /\ pc' = "enter"
    /\ UNCHANGED <<now, ticks, posix, disk_ok, handler, old_handler, timer, leaked,
                   requests, notes_dir, saves, csv_dir, log_ok, api_key, search, posts, json_dir>>
    /\ UNCHANGED savers

\* _TL.__enter__ up to signal.signal(SIGALRM, _raise)
TLEnter ==
    /\ pc = "enter"
    /\ ~AlarmDue
    /\ IF SelfPosix
       THEN /\ old_handler' = handler
            /\ handler' = "_raise"
            /\ pc' = "arm"
       ELSE /\ pc' = "exec"
            /\ UNCHANGED <<old_handler, handler>>
    /\ UNCHANGED <<now, ticks, calls, posix, disk_ok, call, started, buf_out, buf_err,
                   old_targets, sys_stdout, sys_stderr, host_out, env, ip, exc,
                   timer, ret, written, fired, fault, leaked, requests,
                   last_log, notes_dir, saves, csv_dir, log_ok, api_key, search, posts, json_dir>>
    /\ UNCHANGED savers

\* _TL.__enter__: signal.setitimer(ITIMER_REAL, seconds).  A negative value
\* raises, and then __exit__ is never called; zero leaves the timer disarmed.
TLArm ==
    /\ pc = "arm"
    /\ IF call.timeout_sec < 0
       THEN /\ exc' = [type |-> "itimer_error", msg |-> <<"Invalid argument">>]
            /\ pc' = "leave"
            /\ UNCHANGED timer
       ELSE /\ timer' = IF call.timeout_sec = 0 THEN Off
                      ELSE [armed |-> TRUE, at |-> now + call.timeout_sec]
            /\ pc' = "armed"
            /\ UNCHANGED exc
    /\ UNCHANGED <<now, ticks, calls, posix, disk_ok, call, started, buf_out, buf_err,
                   old_targets, sys_stdout, sys_stderr, host_out, env, ip,
                   handler, old_handler, ret, written, fired, fault, leaked,
                   requests, last_log, notes_dir, saves, csv_dir, log_ok, api_key, search, posts, json_dir>>
    /\ UNCHANGED savers

\* _TL.__enter__ returns and exec(code, env, env) starts.
TLEntered ==
    /\ pc = "armed"
    /\ ~AlarmDue
    /\ pc' = "exec"
    /\ UNCHANGED <<now, ticks, calls, posix, disk_ok, call, started, buf_out, buf_err,
                   old_targets, sys_stdout, sys_stderr, host_out, env, ip, exc,
                   handler, old_handler, timer, ret, written, fired, fault,
                   leaked, requests, last_log, notes_dir, saves, csv_dir, log_ok, api_key, search, posts, json_dir>>
    /\ UNCHANGED savers

TimeoutError == [type |-> "TimeoutError", msg |-> <<"time limit exceeded">>]

\* What a statement of the code raises when it runs in namespace e.
Raises(stmt, e) ==
    CASE stmt = "raise_ValueError" -> [type |-> "ValueError", msg |-> <<"boom">>]
      [] stmt = "raise_TimeoutError" -> [type |-> "TimeoutError", msg |-> <<"boom">>]
      [] stmt = "raise_SystemExit" -> [type |-> "SystemExit", msg |-> <<>>]
      [] stmt = "read_x" /\ "x" \notin e -> [type |-> "NameError", msg |-> <<"x">>]
      [] OTHER -> NoExc

\* exec(code, env, env): one statement.  print() writes to whatever sys.stdout
\* is bound to; a loop makes no progress of its own.
ExecStep ==
    /\ pc = "exec"
    /\ ~AlarmDue
    /\ ip <= Len(call.code.stmts)
    /\ LET stmt == call.code.stmts[ip]
           raised == Raises(stmt, env)
       IN  /\ stmt \notin {"loop", "try_loop"}
           /\ IF raised # NoExc
              THEN /\ exc' = raised
                   /\ fault' = raised.type
                   /\ pc' = "exit_disarm"
                   /\ UNCHANGED ip
              ELSE /\ ip' = ip + 1
                   /\ UNCHANGED <<exc, fault, pc>>
           /\ buf_out' = IF stmt \in {"print_a", "print_b"} /\ sys_stdout = "buf"
                         THEN Append(buf_out, IF stmt = "print_a" THEN "a" ELSE "b")
                         ELSE buf_out
           /\ host_out' = IF stmt \in {"print_a", "print_b"} /\ sys_stdout = "host"
                          THEN Append(host_out, IF stmt = "print_a" THEN "a" ELSE "b")
                          ELSE host_out
           /\ written' = IF stmt \in {"print_a", "print_b"}
                         THEN Append(written, IF stmt = "print_a" THEN "a" ELSE "b")
                         ELSE written
           /\ buf_err' = IF stmt = "eprint" /\ sys_stderr = "buf"
                         THEN Append(buf_err, "e") ELSE buf_err
           /\ env' = IF stmt = "assign_x" THEN env \cup {"x"} ELSE env
           /\ sys_stdout' = IF stmt = "rebind_stdout" THEN "host" ELSE sys_stdout
           /\ sys_stderr' = IF stmt = "rebind_stderr" THEN "other" ELSE sys_stderr
    /\ UNCHANGED <<now, ticks, calls, posix, disk_ok, call, started, old_targets,
                   handler, old_handler, timer, ret, fired, leaked,
                   requests, last_log, notes_dir, saves, csv_dir, log_ok, api_key, search, posts, json_dir>>
    /\ UNCHANGED savers

\* exec returns normally.
ExecDone ==
    /\ pc = "exec"
    /\ ~AlarmDue
    /\ ip > Len(call.code.stmts)
    /\ pc' = "exit_disarm"
    /\ UNCHANGED <<now, ticks, calls, posix, disk_ok, call, started, buf_out, buf_err,
                   old_targets, sys_stdout, sys_stderr, host_out, env, ip, exc,
                   handler, old_handler, timer, ret, written, fired, fault,
                   leaked, requests, last_log, notes_dir, saves, csv_dir, log_ok, api_key, search, posts, json_dir>>
    /\ UNCHANGED savers

\* _TL.__exit__: signal.setitimer(ITIMER_REAL, 0.0)
TLExitDisarm ==
    /\ pc = "exit_disarm"
    /\ ~AlarmDue
    /\ IF SelfPosix
       THEN /\ timer' = Off
            /\ pc' = "exit_restore"
       ELSE /\ pc' = "leave"
            /\ UNCHANGED timer
    /\ UNCHANGED <<now, ticks, calls, posix, disk_ok, call, started, buf_out, buf_err,
                   old_targets, sys_stdout, sys_stderr, host_out, env, ip, exc,
                   handler, old_handler, ret, written, fired, fault, leaked,
                   requests, last_log, notes_dir, saves, csv_dir, log_ok, api_key, search, posts, json_dir>>
    /\ UNCHANGED savers

\* _TL.__exit__: signal.signal(SIGALRM, old_handler)
TLExitRestore ==
    /\ pc = "exit_restore"
    /\ handler' = old_handler
    /\ pc' = "leave"
    /\ UNCHANGED <<now, ticks, calls, posix, disk_ok, call, started, buf_out, buf_err,
                   old_targets, sys_stdout, sys_stderr, host_out, env, ip, exc,
                   old_handler, timer, ret, written, fired, fault, leaked,
                   requests, last_log, notes_dir, saves, csv_dir, log_ok, api_key, search, posts, json_dir>>
    /\ UNCHANGED savers

\* SIGALRM: the one-shot timer expires and _raise raises TimeoutError where
\* the interpreter is.  Inside __enter__ or __exit__ it leaves the context
\* manager at once; between the end of exec and __exit__ it is an exception
\* of the with body, and __exit__ runs; inside a try block of the code that
\* catches it, the code goes on.
AlarmFire ==
    /\ AlarmDue
    /\ timer' = Off
    /\ fired' = pc
    /\ CASE pc = "exec" /\ ip <= Len(call.code.stmts) /\ call.code.stmts[ip] = "try_loop" ->
              /\ ip' = ip + 1
              /\ UNCHANGED <<exc, pc>>
         [] pc = "exec" /\ ~(ip <= Len(call.code.stmts) /\ call.code.stmts[ip] = "try_loop") ->
              /\ exc' = TimeoutError
              /\ pc' = "exit_disarm"
              /\ UNCHANGED ip
         [] pc = "armed" ->
              /\ exc' = TimeoutError
              /\ pc' = "leave"
              /\ UNCHANGED ip
         [] pc = "exit_disarm" ->
              /\ exc' = TimeoutError
              /\ pc' \in {"exit_disarm", "leave"}
              /\ UNCHANGED ip
    /\ UNCHANGED <<now, ticks, calls, posix, disk_ok, call, started, buf_out, buf_err,
                   old_targets, sys_stdout, sys_stderr, host_out, env, handler,
                   old_handler, ret, written, fault, leaked, requests,
                   last_log, notes_dir, saves, csv_dir, log_ok, api_key, search, posts, json_dir>>
    /\ UNCHANGED savers

\* except TimeoutError / except Exception: what becomes of the exception.
Propagates(e) == e.type \in {"SystemExit"}

\* A timeout that is reported as a success.
OutcomeTimeoutOk(e) ==
    IF e.type = "none" THEN [ok |-> TRUE, error |-> None]
    ELSE IF e.type = "TimeoutError"
         THEN [ok |-> TRUE, error |-> <<"Timeout:", " ">> \o e.msg]
         ELSE [ok |-> FALSE,
               error |-> <<"Traceback (most recent call last):", e.type>> \o e.msg]

Outcome(e) ==
    IF e.type = "none" THEN [ok |-> TRUE, error |-> None]
    ELSE IF e.type = "TimeoutError"
         THEN [ok |-> FALSE, error |-> <<"Timeout:", " ">> \o e.msg]
         ELSE [ok |-> FALSE,
               error |-> <<"Traceback (most recent call last):", e.type>> \o e.msg]

\* The two buffers taken for one another.
ResultSwapped ==
    [ok |-> Outcome(exc).ok,
     stdout |-> buf_err,
     stderr |-> buf_out,
     error |-> Outcome(exc).error,
     duration_ms |-> (now - started) * MsPerTick,
     csv_path |-> <<"data/mcp-perplexity">>]

Result ==
    [ok |-> Outcome(exc).ok,
     stdout |-> buf_out,
     stderr |-> buf_err,
     error |-> Outcome(exc).error,
     duration_ms |-> (now - started) * MsPerTick,
     csv_path |-> <<"data/mcp-perplexity">>]

EvalLogParams ==
    [code |-> TruncateCode(Text(call.code)), timeout_sec |-> call.timeout_sec]

\* The stream is left as the code left it.
RedirectKeep(old_target, stream) == stream

\* redirect_stdout.__exit__, redirect_stderr.__exit__: the stream that was
\* saved on entry is put back, whatever the code bound in between.
RedirectExit(old_target, stream) == old_target

\* The with statement is left (redirect_stderr and redirect_stdout put the
\* streams back), the result is built and logged, py_eval returns; an
\* exception that is not an Exception leaves py_eval instead.
PyEvalReturn ==
    /\ pc = "leave"
    /\ sys_stdout' = RedirectExit(old_targets.out, sys_stdout)
    /\ sys_stderr' = RedirectExit(old_targets.err, sys_stderr)
    /\ IF Propagates(exc)
       THEN /\ ret' = [tool |-> "py_eval", raised |-> exc.type, value |-> Nothing]
            /\ UNCHANGED <<requests, last_log>>
       ELSE /\ ret' = ToolReturn("py_eval", Dict(Result))
            /\ log_request(call.requester, "py_eval", EvalLogParams, Dict(Result))
    /\ leaked' = leaked \cup (env \ FreshEnv)
    /\ pc' = "idle"
    /\ env' = {}
    /\ ip' = 1
    /\ exc' = NoExc
    /\ UNCHANGED <<now, ticks, calls, posix, disk_ok, call, started, buf_out, buf_err,
                   old_targets, host_out, handler, old_handler, timer, written,
                   fired, fault, notes_dir, saves, csv_dir, log_ok, api_key, search, posts, json_dir>>
    /\ UNCHANGED savers

\* Time passes.
Tick ==
    /\ ticks < MaxTicks
    /\ ~AlarmDue
    /\ now' = now + 1
    /\ ticks' = ticks + 1
    /\ UNCHANGED <<calls, posix, disk_ok, ret, requests, last_log, notes_dir, saves, csv_dir, log_ok, api_key, search, posts, json_dir>>
    /\ UNCHANGED evalVars
    /\ UNCHANGED savers


----------------------------------------------------------------------------
(* mcp_service.py: save_tool_notes and read_tool_notes *)

ToolNames == { <<"t">>, <<"a", "/", "b">>, <<"a", "_", "b">> }

NoteTexts == { <<"a">>, <<"a", "\r", "b">> }

\* tool_name.replace("/", "_").replace("\\", "_")
SafeToolName(tool_name) ==
    [i \in 1..Len(tool_name) |->
        IF tool_name[i] \in {"/", "\\"} THEN "_" ELSE tool_name[i]]

NotesFile(tool_name) == SafeToolName(tool_name) \o <<".md">>

\* datetime.now().strftime("%Y-%m-%d %H:%M:%S")
Strftime(t) ==
    LET sec == t \div 2
    IN  <<"2024-12-22 10:00:", Digit(sec \div 10), Digit(sec % 10)>>

\* entry = f"\n\n---\n**Added:** {timestamp}\n\n{markdown_notes}\n"
Entry(timestamp, markdown_notes) ==
    <<"\n", "\n", "---", "\n", "**Added:** ">> \o timestamp \o <<"\n", "\n">>
        \o markdown_notes \o <<"\n">>

\* f"# Tool Usage Notes: {tool_name}\n"
Header(tool_name) == <<"# Tool Usage Notes: ">> \o tool_name \o <<"\n">>

\* A file that is truncated on every save.
OpenModeTruncate(exists) == "w"

\* mode = 'a' if notes_file.exists() else 'w'
OpenMode(exists) == IF exists THEN "a" ELSE "w"

\* os.linesep
Linesep == IF posix THEN <<"\n">> ELSE <<"\r", "\n">>

\* Writing to a file opened in text mode: "\n" becomes os.linesep.
RECURSIVE WriteText(_)
WriteText(s) ==
    IF s = <<>> THEN <<>>
    ELSE (IF Head(s) = "\n" THEN Linesep ELSE <<Head(s)>>) \o WriteText(Tail(s))

\* Reading a file opened in text mode: "\r\n" and "\r" become "\n".
RECURSIVE ReadText(_)
ReadText(s) ==
    IF s = <<>> THEN <<>>
    ELSE IF Head(s) = "\r"
         THEN <<"\n">> \o ReadText(IF Len(s) >= 2 /\ s[2] = "\n" THEN Tail(Tail(s)) ELSE Tail(s))
         ELSE <<Head(s)>> \o ReadText(Tail(s))

\* markdown_notes[:500] + "..." if len(markdown_notes) > 500 else markdown_notes
TruncateNotes(text) ==
    IF Len(text) > CodeLogLimit
    THEN SubSeq(text, 1, CodeLogLimit) \o Ellipsis
    ELSE text

SaveLogParams(tool_name, markdown_notes) ==
    [tool_name |-> tool_name, markdown_notes |-> TruncateNotes(markdown_notes)]

SavedResult(tool_name, timestamp) ==
    Str(<<"(ok) Notes saved successfully", "Tool: ">> \o tool_name
        \o <<"File: tool_notes/">> \o NotesFile(tool_name)
        \o <<"Timestamp: ">> \o timestamp)

SaveError == Str(<<"(x) Error saving notes: ", "OSError">>)

\* save_tool_notes: the entry is appended to the notes file of the tool (the
\* file is created with a header first), unless opening the file fails.
SaveToolNotes ==
    /\ pc = "idle"
    /\ calls < MaxToolCalls
    /\ calls' = calls + 1
    /\ \E r \in NoteRequesters, tool_name \in ToolNames, markdown_notes \in NoteTexts :
          LET opened == disk_ok
              notes_file == NotesFile(tool_name)
              timestamp == Strftime(now)
              entry == Entry(timestamp, markdown_notes)
              mode == OpenMode(notes_file \in DOMAIN notes_dir)
              before == IF mode = "a" THEN notes_dir[notes_file] ELSE <<>>
              data == (IF mode = "w" THEN Header(tool_name) ELSE <<>>) \o entry
              result == IF opened THEN SavedResult(tool_name, timestamp) ELSE SaveError
          IN  /\ notes_dir' = IF opened
                              THEN Put(notes_dir, notes_file, before \o WriteText(data))
                              ELSE notes_dir
              /\ saves' = IF opened
                          THEN Append(saves, [tool_name |-> tool_name,
                                              markdown_notes |-> markdown_notes,
                                              timestamp |-> timestamp])
                          ELSE saves
              /\ log_request(r, "save_tool_notes",
                             SaveLogParams(tool_name, markdown_notes), result)
              /\ ret' = ToolReturn("save_tool_notes", result)
    /\ UNCHANGED <<now, ticks, posix, disk_ok, csv_dir, log_ok, api_key, search, posts, json_dir>>
    /\ UNCHANGED evalVars
    /\ UNCHANGED savers

\* Two save_tool_notes calls that the hosting runtime runs at the same time.
Threads == {"T1", "T2"}

NoSaver == [pc |-> "idle", tool_name |-> <<>>, markdown_notes |-> <<>>,
            timestamp |-> <<>>, mode |-> "none", result |-> Nothing]

\* A file opened with 'w' is written from offset 0, over what is there.
Overwrite(content, data) ==
    data \o SubSeq(content, Len(data) + 1, Len(content))

\* What the notes file holds once the buffered writes of a call are flushed:
\* 'a' appends at the end of the file, 'w' writes from the start.
Flushed(content, mode, data) ==
    IF mode = "a" THEN content \o data ELSE Overwrite(content, data)

\* The call starts: file name, timestamp and entry are prepared.
SaveBegin(t) ==
    /\ pc = "idle"
    /\ savers[t].pc \in {"idle", "done"}
    /\ calls < MaxCalls
    /\ calls' = calls + 1
    /\ \E tool_name \in ToolNames, markdown_notes \in NoteTexts :
          savers' = [savers EXCEPT ![t] =
                        [pc |-> "check", tool_name |-> tool_name,
                         markdown_notes |-> markdown_notes,
                         timestamp |-> Strftime(now), mode |-> "none",
                         result |-> Nothing]]
    /\ UNCHANGED <<now, ticks, posix, disk_ok, ret, requests, last_log, notes_dir,
                   saves, csv_dir, log_ok, api_key, search, posts, json_dir>>
    /\ UNCHANGED evalVars

\* mode = 'a' if notes_file.exists() else 'w'
SaveCheck(t) ==
    /\ savers[t].pc = "check"
    /\ savers' = [savers EXCEPT
                     ![t].mode = OpenMode(NotesFile(savers[t].tool_name) \in DOMAIN notes_dir),
                     ![t].pc = "open"]
    /\ UNCHANGED <<now, ticks, calls, posix, disk_ok, ret, requests, last_log,
                   notes_dir, saves, csv_dir, log_ok, api_key, search, posts, json_dir>>
    /\ UNCHANGED evalVars

\* open(notes_file, mode): 'w' creates the file or empties it, 'a' creates
\* it when it is missing.  A failure goes to the except clause.
SaveOpen(t) ==
    /\ savers[t].pc = "open"
    /\ LET notes_file == NotesFile(savers[t].tool_name)
       IN  IF disk_ok
           THEN /\ notes_dir' = IF savers[t].mode = "w" \/ notes_file \notin DOMAIN notes_dir
                                THEN Put(notes_dir, notes_file, <<>>)
                                ELSE notes_dir
                /\ savers' = [savers EXCEPT ![t].pc = "write"]
           ELSE /\ savers' = [savers EXCEPT ![t].pc = "return", ![t].result = SaveError]
                /\ UNCHANGED notes_dir
    /\ UNCHANGED <<now, ticks, calls, posix, disk_ok, ret, requests, last_log,
                   saves, csv_dir, log_ok, api_key, search, posts, json_dir>>
    /\ UNCHANGED evalVars

\* The header (in mode 'w') and the entry are written, and the file is
\* closed, which flushes them.
SaveWrite(t) ==
    /\ savers[t].pc = "write"
    /\ LET notes_file == NotesFile(savers[t].tool_name)
           entry == Entry(savers[t].timestamp, savers[t].markdown_notes)
           data == (IF savers[t].mode = "w" THEN Header(savers[t].tool_name) ELSE <<>>)
                       \o entry
       IN  /\ notes_dir' = Put(notes_dir, notes_file,
                               Flushed(notes_dir[notes_file], savers[t].mode,
                                       WriteText(data)))
           /\ saves' = Append(saves, [tool_name |-> savers[t].tool_name,
                                      markdown_notes |-> savers[t].markdown_notes,
                                      timestamp |-> savers[t].timestamp])
           /\ savers' = [savers EXCEPT
                            ![t].pc = "return",
                            ![t].result = SavedResult(savers[t].tool_name,
                                                      savers[t].timestamp)]
    /\ UNCHANGED <<now, ticks, calls, posix, disk_ok, ret, requests, last_log,
                   csv_dir, log_ok, api_key, search, posts, json_dir>>
    /\ UNCHANGED evalVars

\* The call is logged and its result returned.
SaveReturn(t) ==
    /\ savers[t].pc = "return"
    /\ \E r \in NoteRequesters :
          /\ log_request(r, "save_tool_notes",
                         SaveLogParams(savers[t].tool_name, savers[t].markdown_notes),
                         savers[t].result)
          /\ ret' = ToolReturn("save_tool_notes", savers[t].result)
    /\ savers' = [savers EXCEPT ![t].pc = "done"]
    /\ UNCHANGED <<now, ticks, calls, posix, disk_ok, notes_dir, saves, csv_dir,
                   log_ok, api_key, search, posts, json_dir>>
    /\ UNCHANGED evalVars

NoNotes(tool_name) == Str(<<"No notes found for tool: ">> \o tool_name)

ReadError == Str(<<"(x) Error reading notes: ", "OSError">>)

\* read_tool_notes: the content of the notes file of the tool, or a message
\* when there is none.
ReadToolNotes ==
    /\ pc = "idle"
    /\ calls < MaxToolCalls
    /\ calls' = calls + 1
    /\ \E r \in NoteRequesters, tool_name \in ToolNames, opened \in BOOLEAN :
          LET notes_file == NotesFile(tool_name)
              result == IF notes_file \notin DOMAIN notes_dir THEN NoNotes(tool_name)
                        ELSE IF opened THEN Str(ReadText(notes_dir[notes_file]))
                        ELSE ReadError
          IN  /\ (notes_file \notin DOMAIN notes_dir) => opened
              /\ log_request(r, "read_tool_notes", [tool_name |-> tool_name], result)
              /\ ret' = ToolReturn("read_tool_notes", result)
    /\ UNCHANGED <<now, ticks, posix, disk_ok, notes_dir, saves, csv_dir, log_ok, api_key, search, posts, json_dir>>
    /\ UNCHANGED evalVars
    /\ UNCHANGED savers


----------------------------------------------------------------------------
(* mcp_service.py: get_request_log *)

TicksPerHour == 2 * 3600

IsDigit(c) == c \in Range(DigitChars)

DigitValue(c) == CHOOSE n \in 0..9 : DigitChars[n + 1] = c

\* A datetime: wall-clock time in ticks after 10:00:00 of 2024-12-22, and the
\* UTC offset when it is aware.
NotADatetime == [ok |-> FALSE, t |-> 0, aware |-> FALSE, utcoffset |-> 0]

\* The offset part of an ISO text: nothing, or +HH:00.
ParseOffset(s) ==
    IF s = <<>> THEN [ok |-> TRUE, aware |-> FALSE, utcoffset |-> 0]
    ELSE IF /\ Len(s) = 6
            /\ s[1] = "+"
            /\ IsDigit(s[2]) /\ IsDigit(s[3])
            /\ s[4] = ":" /\ s[5] = "0" /\ s[6] = "0"
         THEN [ok |-> TRUE, aware |-> TRUE,
               utcoffset |-> (10 * DigitValue(s[2]) + DigitValue(s[3])) * TicksPerHour]
         ELSE [ok |-> FALSE, aware |-> FALSE, utcoffset |-> 0]

\* datetime.fromisoformat, for a date, or a time of the minute of the run
\* with a fraction of .500000 or none, and an offset or none.  Any single
\* character is taken between the date and the time.
FromIsoFormat(s) ==
    IF s = <<"2024-12-22">> THEN [ok |-> TRUE, t |-> 0 - 10 * TicksPerHour, aware |-> FALSE, utcoffset |-> 0]
    ELSE IF s = <<"2024-12-23">> THEN [ok |-> TRUE, t |-> 14 * TicksPerHour, aware |-> FALSE, utcoffset |-> 0]
    ELSE IF Len(s) >= 3 /\ s[1] \in {DatePrefix[1], AltPrefix[1]}
            /\ IsDigit(s[2]) /\ IsDigit(s[3])
    THEN LET sec == 10 * DigitValue(s[2]) + DigitValue(s[3])
             frac == Len(s) >= 10 /\ SubSeq(s, 4, 10) = <<".", "5", "0", "0", "0", "0", "0">>
             rest == SubSeq(s, IF frac THEN 11 ELSE 4, Len(s))
             off == ParseOffset(rest)
         IN  IF off.ok
             THEN [ok |-> TRUE, t |-> 2 * sec + (IF frac THEN 1 ELSE 0),
                   aware |-> off.aware, utcoffset |-> off.utcoffset]
             ELSE NotADatetime
    ELSE NotADatetime

\* s.replace('Z', '+00:00')
RECURSIVE ReplaceZ(_)
ReplaceZ(s) ==
    IF s = <<>> THEN <<>>
    ELSE (IF Head(s) = "Z" THEN UtcSuffix ELSE <<Head(s)>>) \o ReplaceZ(Tail(s))

\* 'T' in since_datetime
HasT(s) == \E i \in DOMAIN s : s[i] = DatePrefix[1]

ParseSince(since_datetime) ==
    IF HasT(since_datetime) THEN FromIsoFormat(ReplaceZ(since_datetime))
    ELSE FromIsoFormat(since_datetime)

\* filter_dt.replace(tzinfo=timezone.utc)
ReplaceTzUtc(dt) == [dt EXCEPT !.aware = TRUE, !.utcoffset = 0]

\* The instant an aware datetime denotes.
Instant(dt) == dt.t - dt.utcoffset

\* A filter that leaves out the records of the very instant asked for.
KeepsRecordStrict(record_dt, filter_dt) == Instant(record_dt) > Instant(filter_dt)

\* record_dt >= filter_dt
KeepsRecord(record_dt, filter_dt) == Instant(record_dt) >= Instant(filter_dt)

\* The code points of the characters of a timestamp.
Ord(c) ==
    CASE c = DatePrefix[1] -> 0
      [] c = "+" -> 43
      [] c = "." -> 46
      [] IsDigit(c) -> 48 + DigitValue(c)
      [] c = ":" -> 58
      [] OTHER -> 90

\* a <= b for strings
RECURSIVE StrLeq(_, _)
StrLeq(a, b) ==
    IF a = <<>> THEN TRUE
    ELSE IF b = <<>> THEN FALSE
    ELSE IF Ord(Head(a)) < Ord(Head(b)) THEN TRUE
    ELSE IF Ord(Head(a)) > Ord(Head(b)) THEN FALSE
    ELSE StrLeq(Tail(a), Tail(b))

\* The rows in whatever order the directory listing gave them.
Unsorted(rows) == TRUE

\* df.sort_values("datetime", ascending=True): the order of the strings
SortedByDatetime(rows) ==
    \A i, j \in DOMAIN rows : i < j => StrLeq(rows[i].datetime, rows[j].datetime)

Row(data) ==
    [datetime |-> data.timestamp_iso,
     requester |-> data.requester,
     tool_name |-> data.tool_name]

\* Files of requests/ that log_request did not write: text that is not JSON,
\* a JSON array, an object without timestamp_iso, an object whose
\* timestamp_iso is not a datetime.
NotJson == [json |-> "invalid"]
NotObject == [json |-> "array"]
NoTimestamp == [json |-> "object", requester |-> <<"u">>, tool_name |-> "py_eval"]
BadTimestamp == [json |-> "object", timestamp_iso |-> <<"yesterday">>,
                 requester |-> <<"u">>, tool_name |-> "py_eval"]

ForeignFiles == {NotJson, NotObject, NoTimestamp, BadTimestamp}

\* What json.load makes of the file: nothing, an array, or an object.
Kind(data) == IF "json" \in DOMAIN data THEN data.json ELSE "object"

\* data.get("timestamp_iso", "")
TimestampIso(data) ==
    IF "timestamp_iso" \in DOMAIN data THEN data.timestamp_iso ELSE <<>>

\* json.JSONDecodeError is caught and the file passed over; so is an object
\* whose timestamp_iso is missing or empty.
Skipped(data) ==
    \/ Kind(data) = "invalid"
    \/ Kind(data) = "object" /\ TimestampIso(data) = <<>>

\* What the loop does not catch: AttributeError from data.get on an array,
\* ValueError from datetime.fromisoformat.
Breaks(data) ==
    \/ Kind(data) = "array"
    \/ /\ Kind(data) = "object"
       /\ TimestampIso(data) # <<>>
       /\ ~FromIsoFormat(ReplaceZ(TimestampIso(data))).ok

\* The call's own record is written before the directory is read.
GlobAfterLog(dir, own) == Put(dir, own.file, own.record)

\* requests_dir.glob("*.json"): the directory as it is when the loop runs,
\* which is before log_request writes the record of this call.
Glob(dir, own) == dir

\* The records the loop over requests/*.json keeps.  filter_dt is made aware
\* (as UTC) at the first record that is aware.
KeptFiles(dir, filter_dt) ==
    LET read == {f \in DOMAIN dir : ~Skipped(dir[f])}
        parsed(f) == FromIsoFormat(ReplaceZ(TimestampIso(dir[f])))
        filter == IF filter_dt.aware \/ ~(\E f \in read : parsed(f).aware)
                  THEN filter_dt ELSE ReplaceTzUtc(filter_dt)
    IN  {f \in read : KeepsRecord(parsed(f), filter)}

\* The data frames the records can make: one row per kept record, sorted.
DataFrames(dir, files) ==
    {rows \in [1..Cardinality(files) -> {Row(dir[f]) : f \in files}] :
        /\ \A f \in files : \E i \in DOMAIN rows : rows[i] = Row(dir[f])
        /\ SortedByDatetime(rows)}

Uuids == {"1f", "2e"}

SinceInputs ==
    { <<"2024-12-23">>,
      DatePrefix \o <<"1", "0">>,
      DatePrefix \o <<"1", "0", ".", "5", "0", "0", "0", "0", "0", "+", "0", "1", ":", "0", "0">>,
      AltPrefix \o <<"1", "0">>,
      <<"yesterday">> }

CsvFile(id) == <<"request_log_", id, ".csv">>

\* format_csv_response
CsvResponse(filename, rows) ==
    Str(<<"(ok) Data saved to CSV", "File: ">> \o filename
        \o <<"Rows: ", Digit(Len(rows))>>)

InvalidSince(since_datetime) ==
    Str(<<"(x) Error", ": ", "Invalid datetime format: ">> \o since_datetime)

LogError == Str(<<"(x) Error", " getting request log: ", "OSError">>)

RecordError == Str(<<"(x) Error", " getting request log: ", "AttributeError or ValueError">>)

\* get_request_log: the records at or after since_datetime are read, sorted,
\* written to a new CSV file and described; the call is logged afterwards.
GetRequestLog ==
    /\ pc = "idle"
    /\ calls < MaxToolCalls
    /\ calls' = calls + 1
    /\ \E r \in LogRequesters, since_datetime \in SinceInputs :
          LET filter_dt == ParseSince(since_datetime)
          IN  IF ~filter_dt.ok
              THEN /\ ret' = [tool |-> "get_request_log", raised |-> "none",
                              value |-> InvalidSince(since_datetime)]
                   /\ last_log' = NoLog
                   /\ UNCHANGED <<requests, csv_dir>>
              ELSE LET params == [since_datetime |-> since_datetime]
                       own == [file |-> LogFile(r, "get_request_log"),
                               record |-> LogRecord(r, "get_request_log", params, Nothing)]
                       dir == Glob(requests, own)
                   IN  IF \E f \in DOMAIN dir : Breaks(dir[f])
                       THEN /\ log_request(r, "get_request_log", params, RecordError)
                            /\ ret' = ToolReturn("get_request_log", RecordError)
                            /\ UNCHANGED csv_dir
                       ELSE \E id \in Uuids, df \in DataFrames(dir, KeptFiles(dir, filter_dt)) :
                               LET saved == disk_ok
                                   result == IF saved THEN CsvResponse(CsvFile(id), df)
                                             ELSE LogError
                               IN  /\ csv_dir' = IF saved THEN Put(csv_dir, CsvFile(id), df)
                                                 ELSE csv_dir
                                   /\ log_request(r, "get_request_log", params, result)
                                   /\ ret' = ToolReturn("get_request_log", result)
    /\ UNCHANGED <<now, ticks, posix, disk_ok, notes_dir, saves, log_ok, api_key,
                   search, posts, json_dir>>
    /\ UNCHANGED evalVars
    /\ UNCHANGED savers

\* A file that is not a record of log_request comes to lie in requests/: the
\* loop of get_request_log takes every *.json file of the directory.
PutForeignFile ==
    /\ pc = "idle"
    /\ <<"x", ".json">> \notin DOMAIN requests
    /\ \E data \in ForeignFiles : requests' = Put(requests, <<"x", ".json">>, data)
    /\ UNCHANGED <<now, ticks, calls, posix, disk_ok, ret, last_log, notes_dir, saves,
                   csv_dir, log_ok, api_key, search, posts, json_dir>>
    /\ UNCHANGED evalVars
    /\ UNCHANGED savers

----------------------------------------------------------------------------
(* perplexity_tools.py: the five search and research tools *)

Tools == {"perplexity_sonar", "perplexity_sonar_pro", "perplexity_sonar_reasoning",
          "perplexity_sonar_reasoning_pro", "perplexity_sonar_deep_research"}

\* The model each tool asks for.
Model(tool) ==
    CASE tool = "perplexity_sonar" -> "sonar"
      [] tool = "perplexity_sonar_pro" -> "sonar-pro"
      [] tool = "perplexity_sonar_reasoning" -> "sonar-reasoning"
      [] tool = "perplexity_sonar_reasoning_pro" -> "sonar-reasoning-pro"
      [] tool = "perplexity_sonar_deep_research" -> "sonar-deep-research"

\* The first part of the name of the file each tool saves.
FilePrefix(tool) ==
    CASE tool = "perplexity_sonar" -> "sonar_"
      [] tool = "perplexity_sonar_pro" -> "sonar_pro_"
      [] tool = "perplexity_sonar_reasoning" -> "sonar_reasoning_"
      [] tool = "perplexity_sonar_reasoning_pro" -> "sonar_reasoning_pro_"
      [] tool = "perplexity_sonar_deep_research" -> "sonar_deep_research_"

\* reasoning_effort as callers give it; "medium" is the default.
Efforts == {"medium", "high", "extreme", ""}

\* Every value passes.
AnyEffort(reasoning_effort) == TRUE

\* reasoning_effort in ["low", "medium", "high"]
ValidEffort(reasoning_effort) == reasoning_effort \in {"low", "medium", "high"}

EffortError(reasoning_effort) ==
    Str(<<"(x) Error", ": reasoning_effort must be 'low', 'medium', or 'high', got '",
          reasoning_effort, "'">>)

\* A key that is set, to whatever text.
KeyIsSet(key) == key # None

\* api_key is truthy
HasKey(key) == key # None /\ key # <<>>

MissingKey ==
    [type |-> "ValueError",
     msg |-> <<"PERPLEXITY_API_KEY environment variable is not set. ",
               "Please set it in your .env.local file.">>]

\* What becomes of requests.post(...), raise_for_status() and response.json():
\* a JSON body, or an exception of the requests library.
HttpOutcomes == {"ok", "ConnectionError", "Timeout", "HTTPError", "JSONDecodeError"}

\* A failed request is sent again.
RetryAfterFailure == "post"

\* except requests.RequestException: logged and raised again, to the tool
AfterFailure == "failed"

\* Only the configuration error is caught.
IsValueError(type) == type = "ValueError"

\* except Exception: the classes that derive from Exception
IsException(type) ==
    type \in {"ValueError", "OSError", "ConnectionError", "Timeout", "HTTPError",
              "JSONDecodeError", "TypeError"}

SearchError(e) == Str(<<"(x) Error", ": ">> \o e.msg)

\* datetime.now().strftime("%Y%m%d_%H%M%S")
Stamp(t) ==
    LET sec == t \div 2
    IN  <<"20241222_1000", Digit(sec \div 10), Digit(sec % 10)>>

JsonFile(tool, id) == <<FilePrefix(tool)>> \o Stamp(now) \o <<"_", id, ".json">>

\* What response.json() gives for a 200 answer: the usual body, or one whose
\* message has "content": null.
Bodies == {"full", "null_content"}

Content(body) == IF body = "full" THEN "answer" ELSE "null"

Response(model, body) == [model |-> model, choices |-> <<Content(body)>>]

\* format_json_response takes len(content) and raises TypeError on null;
\* its except clause logs and raises again.
Formats(response) == response.choices[1] # "null"

\* format_json_response
JsonResponse(filename, model) ==
    Str(<<"(ok) Perplexity response saved to JSON", "File: ">> \o filename
        \o <<"Model: ", model>>)

\* A search tool is called.  Only the deep research tool takes, and checks,
\* a reasoning_effort.
SearchCall ==
    /\ pc = "idle"
    /\ calls < MaxCalls
    /\ calls' = calls + 1
    /\ \E tool \in Tools, reasoning_effort \in Efforts :
          LET deep == tool = "perplexity_sonar_deep_research"
          IN  /\ ~deep => reasoning_effort = "medium"
              /\ search' = [tool |-> tool,
                            reasoning_effort |-> IF deep THEN reasoning_effort ELSE "None",
                            exc |-> NoExc,
                            files |-> DOMAIN json_dir]
              /\ pc' = IF deep THEN "validate" ELSE "key"
    /\ posts' = <<>>
    /\ ret' = NoRet
    /\ UNCHANGED <<now, ticks, posix, disk_ok, call, started, buf_out, buf_err,
                   old_targets, sys_stdout, sys_stderr, host_out, env, ip, exc,
                   handler, old_handler, timer, written, fired, fault, leaked,
                   requests, last_log, notes_dir, saves, csv_dir, log_ok, api_key,
                   json_dir>>
    /\ UNCHANGED savers

\* perplexity_sonar_deep_research: reasoning_effort is checked first.
SearchValidate ==
    /\ pc = "validate"
    /\ IF ValidEffort(search.reasoning_effort)
       THEN /\ pc' = "key"
            /\ UNCHANGED ret
       ELSE /\ pc' = "idle"
            /\ ret' = [tool |-> search.tool, raised |-> "none",
                       value |-> EffortError(search.reasoning_effort)]
    /\ UNCHANGED <<now, ticks, calls, posix, disk_ok, call, started, buf_out, buf_err,
                   old_targets, sys_stdout, sys_stderr, host_out, env, ip, exc,
                   handler, old_handler, timer, written, fired, fault, leaked,
                   requests, last_log, notes_dir, saves, csv_dir, log_ok, api_key,
                   search, posts, json_dir>>
    /\ UNCHANGED savers

\* _call_perplexity_api: the key is read from the environment.
SearchKey ==
    /\ pc = "key"
    /\ IF HasKey(api_key)
       THEN /\ pc' = "post"
            /\ UNCHANGED search
       ELSE /\ pc' = "failed"
            /\ search' = [search EXCEPT !.exc = MissingKey]
    /\ UNCHANGED <<now, ticks, calls, posix, disk_ok, call, started, buf_out, buf_err,
                   old_targets, sys_stdout, sys_stderr, host_out, env, ip, exc,
                   handler, old_handler, timer, ret, written, fired, fault, leaked,
                   requests, last_log, notes_dir, saves, csv_dir, log_ok, api_key,
                   posts, json_dir>>
    /\ UNCHANGED savers

\* _call_perplexity_api: the POST is sent, and its answer is read.
SearchPost ==
    /\ pc = "post"
    /\ \E outcome \in HttpOutcomes, body \in Bodies :
          /\ outcome # "ok" => body = "full"
          /\ posts' = Append(posts, [model |-> Model(search.tool),
                                     reasoning_effort |-> search.reasoning_effort,
                                     key |-> api_key,
                                     outcome |-> outcome,
                                     response |-> Response(Model(search.tool), body)])
          /\ IF outcome = "ok"
             THEN /\ pc' = "save"
                  /\ UNCHANGED search
             ELSE /\ pc' = AfterFailure
                  /\ search' = [search EXCEPT !.exc = [type |-> outcome, msg |-> <<outcome>>]]
    /\ UNCHANGED <<now, ticks, calls, posix, disk_ok, call, started, buf_out, buf_err,
                   old_targets, sys_stdout, sys_stderr, host_out, env, ip, exc,
                   handler, old_handler, timer, ret, written, fired, fault, leaked,
                   requests, last_log, notes_dir, saves, csv_dir, log_ok, api_key,
                   json_dir>>
    /\ UNCHANGED savers

\* The response is written to a new JSON file, and then described.
SearchSave ==
    /\ pc = "save"
    /\ \E id \in Uuids :
          LET filename == JsonFile(search.tool, id)
              response == posts[Len(posts)].response
          IN  IF disk_ok
              THEN /\ json_dir' = Put(json_dir, filename, response)
                   /\ IF Formats(response)
                      THEN /\ ret' = [tool |-> search.tool, raised |-> "none",
                                      value |-> JsonResponse(filename, Model(search.tool))]
                           /\ pc' = "idle"
                           /\ UNCHANGED search
                      ELSE /\ search' = [search EXCEPT !.exc = [type |-> "TypeError",
                                                                msg |-> <<"TypeError">>]]
                           /\ pc' = "failed"
                           /\ UNCHANGED ret
              ELSE /\ search' = [search EXCEPT !.exc = [type |-> "OSError",
                                                        msg |-> <<"OSError">>]]
                   /\ pc' = "failed"
                   /\ UNCHANGED <<json_dir, ret>>
    /\ UNCHANGED <<now, ticks, calls, posix, disk_ok, call, started, buf_out, buf_err,
                   old_targets, sys_stdout, sys_stderr, host_out, env, ip, exc,
                   handler, old_handler, timer, written, fired, fault, leaked,
                   requests, last_log, notes_dir, saves, csv_dir, log_ok, api_key,
                   posts>>
    /\ UNCHANGED savers

\* except Exception as e: return f"(x) Error: {str(e)}"
SearchFailed ==
    /\ pc = "failed"
    /\ pc' = "idle"
    /\ ret' = IF IsException(search.exc.type)
              THEN [tool |-> search.tool, raised |-> "none", value |-> SearchError(search.exc)]
              ELSE [tool |-> search.tool, raised |-> search.exc.type, value |-> Nothing]
    /\ UNCHANGED <<now, ticks, calls, posix, disk_ok, call, started, buf_out, buf_err,
                   old_targets, sys_stdout, sys_stderr, host_out, env, ip, exc,
                   handler, old_handler, timer, written, fired, fault, leaked,
                   requests, last_log, notes_dir, saves, csv_dir, log_ok, api_key,
                   search, posts, json_dir>>
    /\ UNCHANGED savers

----------------------------------------------------------------------------

StartTimes == {19}

Init ==
    /\ now \in StartTimes
    /\ ticks = 0
    /\ calls = 0
    /\ posix \in BOOLEAN
    /\ disk_ok \in BOOLEAN
    /\ pc = "idle"
    /\ call = NoCall
    /\ started = 0
    /\ buf_out = <<>>
    /\ buf_err = <<>>
    /\ old_targets = [out |-> "host", err |-> "host"]
    /\ sys_stdout = "host"
    /\ sys_stderr = "host"
    /\ host_out = <<>>
    /\ env = {}
    /\ ip = 1
    /\ exc = NoExc
    /\ handler = "SIG_DFL"
    /\ old_handler = "SIG_DFL"
    /\ timer = Off
    /\ ret = NoRet
    /\ written = <<>>
    /\ fired = "no"
    /\ fault = "none"
    /\ leaked = {}
    /\ requests = <<>>
    /\ last_log = NoLog
    /\ notes_dir = <<>>
    /\ saves = <<>>
    /\ csv_dir = <<>>
    /\ log_ok \in BOOLEAN
    /\ api_key \in ApiKeys
    /\ search = NoSearch
    /\ posts = <<>>
    /\ json_dir = <<>>
    /\ savers = [t \in Threads |-> NoSaver]

Next ==
    \/ PyEvalCall
    \/ TLEnter
    \/ TLArm
    \/ TLEntered
    \/ ExecStep
    \/ ExecDone
    \/ AlarmFire
    \/ TLExitDisarm
    \/ TLExitRestore
    \/ PyEvalReturn
    \/ Tick

\* The data directory and the API key play no part in py_eval.
InitEval == Init /\ disk_ok /\ api_key = None

Spec == InitEval /\ [][Next]_vars

NextNotes ==
    \/ SaveToolNotes
    \/ ReadToolNotes
    \/ Tick

InitNotes == Init /\ api_key = None

SpecNotes == InitNotes /\ [][NextNotes]_vars

NextConc ==
    \/ \E t \in Threads : SaveBegin(t)
    \/ \E t \in Threads : SaveCheck(t)
    \/ \E t \in Threads : SaveOpen(t)
    \/ \E t \in Threads : SaveWrite(t)
    \/ \E t \in Threads : SaveReturn(t)
    \/ Tick

InitConc == Init /\ posix /\ log_ok /\ api_key = None

SpecConc == InitConc /\ [][NextConc]_vars

NextLog ==
    \/ GetRequestLog
    \/ Tick

\* The platform plays no part in the request log.
InitLog == Init /\ posix /\ api_key = None

SpecLog == InitLog /\ [][NextLog]_vars

NextForeign ==
    \/ GetRequestLog
    \/ PutForeignFile
    \/ Tick

SpecForeign == InitLog /\ [][NextForeign]_vars

NextSearch ==
    \/ SearchCall
    \/ SearchValidate
    \/ SearchKey
    \/ SearchPost
    \/ SearchSave
    \/ SearchFailed
    \/ Tick

\* The platform and the request log play no part in the search tools.
InitSearch == Init /\ posix /\ log_ok

SpecSearch == InitSearch /\ [][NextSearch]_vars

----------------------------------------------------------------------------
(* Properties of py_eval *)

\* py_eval has returned a result to its caller.
Returned == pc = "idle" /\ ret.tool = "py_eval" /\ ret.raised = "none"

IsTimeoutError(error) == error # None /\ Head(error) = "Timeout:"

IsTraceback(error, type) ==
    /\ error # None
    /\ Len(error) >= 2
    /\ error[1] = "Traceback (most recent call last):"
    /\ error[2] = type

\* C1 as stated: for any code that completes within the timeout, the stdout
\* field of the result is exactly the text the code wrote to standard output,
\* and none of it reached the host's real standard output.
C1_AnyCode ==
    (Returned /\ fired = "no")
        => (ret.value.v.stdout = written /\ host_out = <<>>)

\* C1 amended: for code that completes within the timeout and writes through
\* the sys.stdout py_eval installed (it does not rebind sys.stdout), the stdout
\* field is exactly the text written, and none of it reached the host's real
\* standard output.
C1_CapturedStdout ==
    (Returned /\ fired = "no" /\ "rebind_stdout" \notin Range(call.code.stmts))
        => (ret.value.v.stdout = written /\ host_out = <<>>)

C1_Witness ==
    /\ Returned
    /\ fired = "no"
    /\ written = <<"a", "b">>
    /\ ret.value.v.stdout = <<"a", "b">>

\* C2: on a POSIX platform, a call whose code was still running when the
\* deadline expired returns ok=false with an error that starts with "Timeout:".
C2_TimeoutReported ==
    (posix /\ pc = "idle" /\ ret.tool = "py_eval" /\ fired = "exec")
        => /\ ret.raised = "none"
           /\ ret.value.v.ok = FALSE
           /\ IsTimeoutError(ret.value.v.error)

\* C3: a fault the code raises (the deadline did not expire) comes back as
\* data: py_eval returns ok=false with the stack trace of the fault as error,
\* and does not raise.
C3_FaultIsData ==
    (pc = "idle" /\ ret.tool = "py_eval" /\ fault # "none" /\ fired = "no")
        => /\ ret.raised = "none"
           /\ ret.value.v.ok = FALSE
           /\ IsTraceback(ret.value.v.error, fault)

\* C4: every result has the fields ok, stdout, stderr, error and duration_ms,
\* ok is true exactly when error is null, and when the code completed normally
\* the result is ok=true, error null, with the captured stdout and stderr.
C4_ResultShape ==
    Returned =>
        /\ {"ok", "stdout", "stderr", "error", "duration_ms"} \subseteq DOMAIN ret.value.v
        /\ (ret.value.v.ok = TRUE) <=> (ret.value.v.error = None)
        /\ ret.value.v.ok \in BOOLEAN
        /\ (fault = "none" /\ fired = "no" /\ call.timeout_sec >= 0) =>
              /\ ret.value.v.ok = TRUE
              /\ ret.value.v.error = None
              /\ ret.value.v.stdout = buf_out
              /\ ret.value.v.stderr = buf_err

C4_Witness ==
    /\ Returned
    /\ fault = "none"
    /\ fired = "no"
    /\ ret.value.v.ok = TRUE
    /\ ret.value.v.stdout = <<"a", "b">>
    /\ ret.value.v.stderr = <<"e">>

\* C5: the namespace of a call starts with the builtins, pd, np and CSV_PATH
\* only, every other name in it was bound by the code of this call, and code
\* that reads a name bound only by an earlier call gets a NameError.
C5_FreshNamespace ==
    /\ pc = "enter" => env = {"__builtins__", "pd", "np", "CSV_PATH"}
    /\ (Running /\ "x" \in env) =>
          \E i \in 1..(ip - 1) : call.code.stmts[i] = "assign_x"
    /\ (Returned /\ call.code.stmts = <<"read_x">> /\ fired = "no") =>
          IsTraceback(ret.value.v.error, "NameError")

C5_Witness ==
    /\ Returned
    /\ "x" \in leaked
    /\ call.code.stmts = <<"read_x">>
    /\ IsTraceback(ret.value.v.error, "NameError")

\* C6 as stated: a py_eval call that returns (and whose log file could be
\* written) leaves one audit record with tool_name "py_eval", the code cut to
\* at most 500 characters, and the full result as output_result.
C6_AtMost500 ==
    (Returned /\ last_log.written) =>
        LET record == last_log.record
            text == Text(call.code)
            logged == record.input_params.code
        IN  /\ last_log.file \in DOMAIN requests
            /\ requests[last_log.file] = record
            /\ record.tool_name = "py_eval"
            /\ Len(text) <= 500 => logged = text
            /\ Len(logged) <= 500
            /\ logged = SubSeq(text, 1, Len(logged))
            /\ record.output_result = ret.value

\* C6 amended: the logged code is the code itself when it has at most 500
\* characters, and otherwise its first 500 characters followed by "..."
\* (503 characters).
C6_AuditRecord ==
    (Returned /\ last_log.written) =>
        LET record == last_log.record
            text == Text(call.code)
            logged == record.input_params.code
        IN  /\ last_log.file \in DOMAIN requests
            /\ requests[last_log.file] = record
            /\ record.tool_name = "py_eval"
            /\ Len(text) <= 500 => logged = text
            /\ Len(text) > 500 => logged = SubSeq(text, 1, 500) \o <<".", ".", ".">>
            /\ record.output_result = ret.value

C6_Witness ==
    /\ Returned
    /\ last_log.written
    /\ Len(Text(call.code)) > 500
    /\ Len(last_log.record.input_params.code) = 503
    /\ requests[last_log.file].output_result = ret.value

----------------------------------------------------------------------------
(* Properties of the tool notes *)

Contains(s, sub) ==
    \E k \in 0..(Len(s) - Len(sub)) : SubSeq(s, k + 1, k + Len(sub)) = sub

IsPrefix(s, t) == Len(s) <= Len(t) /\ SubSeq(t, 1, Len(s)) = s

Count(s, c) == Cardinality({i \in DOMAIN s : s[i] = c})

\* read_tool_notes has returned the content of a notes file.
ReadContent ==
    /\ pc = "idle"
    /\ ret.tool = "read_tool_notes"
    /\ ret.value.v # <<>>
    /\ Head(ret.value.v) \notin {"No notes found for tool: ", "(x) Error reading notes: "}

ReadToolName == last_log.record.input_params.tool_name

\* C7: after a successful save_tool_notes(tool_name, markdown_notes),
\* read_tool_notes for that tool name returns content that contains the
\* timestamp header of the entry followed by markdown_notes verbatim.
C7_SaveThenRead ==
    ReadContent =>
        \A i \in DOMAIN saves :
            saves[i].tool_name = ReadToolName =>
                Contains(ret.value.v,
                         <<"**Added:** ">> \o saves[i].timestamp \o <<"\n", "\n">>
                             \o saves[i].markdown_notes)

\* The saves that went to notes file f, in order.
SavesTo(f) == SelectSeq(saves, LAMBDA sv : NotesFile(sv.tool_name) = f)

RECURSIVE Entries(_)
Entries(svs) ==
    IF svs = <<>> THEN <<>>
    ELSE Entry(Head(svs).timestamp, Head(svs).markdown_notes) \o Entries(Tail(svs))

\* What n saves must have left in notes file f: one header, then the n entries.
Appended(f) == WriteText(Header(SavesTo(f)[1].tool_name) \o Entries(SavesTo(f)))

C8_State ==
    /\ \A f \in DOMAIN notes_dir :
          /\ SavesTo(f) # <<>>
          /\ notes_dir[f] = Appended(f)
          /\ Head(notes_dir[f]) = "# Tool Usage Notes: "
          /\ Count(notes_dir[f], "# Tool Usage Notes: ") = 1
          /\ Count(notes_dir[f], "**Added:** ") = Len(SavesTo(f))
    /\ ReadContent =>
          /\ ret.value.v = ReadText(Appended(NotesFile(ReadToolName)))
          /\ Head(ret.value.v) = "# Tool Usage Notes: "
          /\ Count(ret.value.v, "# Tool Usage Notes: ") = 1
          /\ Count(ret.value.v, "**Added:** ") = Len(SavesTo(NotesFile(ReadToolName)))

C8_Step ==
    \A f \in DOMAIN notes_dir :
        /\ f \in DOMAIN notes_dir'
        /\ IsPrefix(notes_dir[f], notes_dir'[f])

\* C8: saves append: the content of a notes file before a step is a prefix of
\* its content after it; a file holds one header, at its start, followed by
\* the entries of all the saves in the order they were made, and that is what
\* read_tool_notes returns (as a text-mode read gives it).
C8_AppendOnly == [](C8_State) /\ [][C8_Step]_vars

C8_Witness ==
    /\ ReadContent
    /\ Len(SavesTo(NotesFile(ReadToolName))) = 2
    /\ Count(ret.value.v, "**Added:** ") = 2

----------------------------------------------------------------------------
(* Properties of get_request_log *)

\* get_request_log has written its CSV file and returned the description.
LogReturned(r) ==
    /\ r.tool = "get_request_log"
    /\ Head(r.value.v) = "(ok) Data saved to CSV"

ReturnedFile(r) == SubSeq(r.value.v, 3, 5)

\* The instant a since_datetime denotes, a text without offset read as UTC.
SinceInstant(since_datetime) == Instant(ParseSince(since_datetime))

\* The records of directory dir at or after since_datetime, as rows.
RowsSince(dir, since_datetime) ==
    {Row(dir[f]) : f \in {g \in DOMAIN dir :
        dir[g].timestamp_ms >= SinceInstant(since_datetime) * MsPerTick}}

C9_Step ==
    (LogReturned(ret') /\ calls' = calls + 1) =>
        LET since == last_log'.record.input_params.since_datetime
            rows == csv_dir'[ReturnedFile(ret')]
            expected == RowsSince(requests, since)
        IN  /\ Range(rows) = expected
            /\ Len(rows) = Cardinality(expected)
            /\ ret'.value.v[7] = Digit(Cardinality(expected))
            /\ (\A f \in DOMAIN requests :
                    requests[f].timestamp_ms < SinceInstant(since) * MsPerTick)
                  => rows = <<>>
            /\ (\A f \in DOMAIN requests :
                    requests[f].timestamp_ms > SinceInstant(since) * MsPerTick)
                  => Len(rows) = Cardinality(DOMAIN requests)

\* C9: the rows get_request_log writes are exactly the records of requests/
\* whose timestamp is at or after since_datetime: none when since_datetime is
\* later than every record, all of them when it is earlier than every record.
C9_ExactFilter == [][C9_Step]_vars

\* A call that kept a record of the very instant asked for, and left an
\* earlier one out.
C9_Witness ==
    /\ pc = "idle"
    /\ LogReturned(ret)
    /\ last_log.record.input_params.since_datetime = DatePrefix \o <<"1", "0">>
    /\ Len(csv_dir[ReturnedFile(ret)]) = 1
    /\ csv_dir[ReturnedFile(ret)][1].datetime = IsoFormat(20)
    /\ \E f \in DOMAIN requests : requests[f].timestamp_iso = IsoFormat(19)

\* C10: the rows of every CSV file get_request_log wrote are in ascending
\* order of the instants their timestamps denote.
C10_SortedByTime ==
    \A f \in DOMAIN csv_dir :
        \A i, j \in DOMAIN csv_dir[f] :
            i < j => Instant(FromIsoFormat(csv_dir[f][i].datetime))
                        <= Instant(FromIsoFormat(csv_dir[f][j].datetime))

\* A file with a row of second 9.5 before a row of second 10.
C10_Witness ==
    \E f \in DOMAIN csv_dir :
        /\ Len(csv_dir[f]) >= 2
        /\ csv_dir[f][1].datetime = IsoFormat(19)
        /\ csv_dir[f][2].datetime = IsoFormat(20)

----------------------------------------------------------------------------
(* Properties of the error paths *)

\* A text that begins with the error mark.
IsErrorString(value) ==
    value.type = "str" /\ value.v # <<>> /\ Head(value.v) = "(x) Error"

\* get_request_log has handed something to its caller.
LogCallDone == pc = "idle" /\ ret.tool = "get_request_log"

\* The since_datetime of that call: the logged parameter, or, when the call
\* was not logged, the text quoted in the message.
LastSince ==
    IF last_log = NoLog THEN SubSeq(ret.value.v, 4, Len(ret.value.v))
    ELSE last_log.record.input_params.since_datetime

Fraction == <<".", "5", "0", "0", "0", "0", "0">>

Offsets == {<<"+", a, b, ":", "0", "0">> : a, b \in Range(DigitChars)}

\* An ISO 8601 date, or date, "T" and a time of day with seconds, an optional
\* fraction and an optional offset.
IsIso8601(s) ==
    \/ s \in {<<"2024-12-22">>, <<"2024-12-23">>}
    \/ /\ Len(s) >= 3
       /\ s[1] = DatePrefix[1]
       /\ IsDigit(s[2]) /\ IsDigit(s[3])
       /\ \E f \in {<<>>, Fraction}, o \in {<<>>, <<"Z">>} \cup Offsets :
              SubSeq(s, 4, Len(s)) = f \o o

\* C11: a get_request_log call whose since_datetime is not an ISO 8601 date
\* or datetime returns a text that begins with the error mark, and does not
\* raise.
C11_NotIso8601 ==
    (LogCallDone /\ ~IsIso8601(LastSince))
        => (ret.raised = "none" /\ IsErrorString(ret.value))

----------------------------------------------------------------------------
(* Properties of the search and research tools *)

\* A search tool has handed something to its caller.
SearchDone == pc = "idle" /\ ret.tool \in Tools

DeepResearch == search.tool = "perplexity_sonar_deep_research"

\* The last POST of the call failed.
PostFailed == posts # <<>> /\ posts[Len(posts)].outcome # "ok"

\* C12: in a perplexity_sonar_deep_research call whose reasoning_effort is
\* not "low", "medium" or "high", no HTTP request is ever sent and no file is
\* written, and the call returns a text that begins with the error mark.
C12_RejectedBeforeNetwork ==
    (DeepResearch /\ search.reasoning_effort \notin {"low", "medium", "high"}) =>
        /\ posts = <<>>
        /\ DOMAIN json_dir = search.files
        /\ pc \in {"validate", "idle"}
        /\ SearchDone => (ret.raised = "none" /\ IsErrorString(ret.value))

\* A rejected call made with a key in place: left alone it would have posted.
C12_Witness ==
    /\ SearchDone
    /\ DeepResearch
    /\ search.reasoning_effort = "extreme"
    /\ api_key = <<"k">>
    /\ disk_ok
    /\ posts = <<>>
    /\ ret.value = EffortError("extreme")

\* C13: when PERPLEXITY_API_KEY is absent or empty, no HTTP request is sent,
\* and every search tool returns a text that begins with the error mark
\* instead of raising.
C13_NoKeyNoRequest ==
    (api_key = None \/ api_key = <<>>) =>
        /\ posts = <<>>
        /\ SearchDone => (ret.raised = "none" /\ IsErrorString(ret.value))

C13_Witness ==
    /\ SearchDone
    /\ ret.tool = "perplexity_sonar_reasoning_pro"
    /\ api_key = <<>>
    /\ posts = <<>>
    /\ ret.value = SearchError(MissingKey)

\* C14: when the outbound call fails (network error, timeout, HTTP error
\* status) the exception reaches the tool, which returns it as a text that
\* begins with the error mark; a search tool always returns a string and
\* never raises.
C14_FailureIsPayload ==
    /\ (pc = "failed" /\ PostFailed) =>
          search.exc.type = posts[Len(posts)].outcome
    /\ SearchDone =>
          /\ ret.raised = "none"
          /\ ret.value.type = "str"
          /\ PostFailed =>
                /\ IsErrorString(ret.value)
                /\ ret.value = SearchError(search.exc)
                /\ search.exc.type = posts[Len(posts)].outcome

C14_Witness ==
    /\ SearchDone
    /\ DeepResearch
    /\ PostFailed
    /\ posts[1].outcome = "Timeout"
    /\ ret.raised = "none"
    /\ IsErrorString(ret.value)

\* C15: a tool call sends at most one HTTP POST, whether that request
\* succeeds or fails; a call that saved a response sent exactly one.
C15_NoRetry ==
    /\ Len(posts) <= 1
    /\ (SearchDone /\ ~IsErrorString(ret.value)) => Len(posts) = 1

\* A call whose one request failed, and that has returned.
C15_Witness ==
    /\ SearchDone
    /\ Len(posts) = 1
    /\ posts[1].outcome = "HTTPError"
    /\ IsErrorString(ret.value)

----------------------------------------------------------------------------
(* Properties of the audit trail *)

LoggingTools == {"py_eval", "save_tool_notes", "read_tool_notes", "get_request_log"}

\* A tool call is over, whether it returned or raised.
CallOver == pc = "idle" /\ ret.tool \in LoggingTools

\* C16: when the audit record of a call cannot be written, the call still
\* returns, nothing is raised, the value returned is the very result that was
\* handed to log_request, and for py_eval that result holds the captured
\* output as it does when the record is written.
C16_LogFailureHarmless ==
    (CallOver /\ last_log # NoLog /\ ~last_log.written) =>
        /\ ret.raised = "none"
        /\ last_log.record.output_result = SerializeOutput(ret.value)
        /\ ret.tool = "py_eval" =>
              /\ ret.value.v.stdout = buf_out
              /\ ret.value.v.stderr = buf_err
              /\ (fault = "none" /\ fired = "no" /\ call.timeout_sec >= 0)
                    => ret.value.v.ok = TRUE

\* A py_eval call that printed, could not be logged, and returned its output.
C16_Witness ==
    /\ CallOver
    /\ ret.tool = "py_eval"
    /\ ~log_ok
    /\ last_log # NoLog
    /\ ~last_log.written
    /\ requests = <<>>
    /\ ret.raised = "none"
    /\ ret.value.v.ok = TRUE
    /\ ret.value.v.stdout = <<"a", "b">>

\* C17: requests/ holds one file per logged invocation: when the records can
\* be written, there are as many files as there were calls (each call of the
\* notes tools is logged once), none having overwritten another.
C17_OneFilePerInvocation ==
    log_ok => Cardinality(DOMAIN requests) = calls

\* The saves made with exactly this tool name, in order.
SavesFor(tool_name) == SelectSeq(saves, LAMBDA sv : sv.tool_name = tool_name)

C18_State ==
    ReadContent =>
        Count(ret.value.v, "**Added:** ") = Len(SavesFor(ReadToolName))

C18_Step ==
    (calls' = calls + 1 /\ ret'.tool = "save_tool_notes") =>
        \A t2 \in ToolNames \ {last_log'.record.input_params.tool_name} :
            /\ (NotesFile(t2) \in DOMAIN notes_dir') = (NotesFile(t2) \in DOMAIN notes_dir)
            /\ NotesFile(t2) \in DOMAIN notes_dir
                  => notes_dir'[NotesFile(t2)] = notes_dir[NotesFile(t2)]

\* C18: notes are kept apart by tool name: what read_tool_notes returns for a
\* tool name holds the entries saved with that very name and no others, and
\* a save for one tool name leaves the notes of every other name as they were.
C18_OneFilePerToolName == [](C18_State) /\ [][C18_Step]_vars

\* C20: whenever a tool that takes a requester has returned a value,
\* log_request was called for that invocation, for that tool, with the value
\* returned as output_result.
C20_EveryReturnLogged ==
    (CallOver /\ ret.raised = "none") =>
        /\ last_log # NoLog
        /\ last_log.record.tool_name = ret.tool
        /\ last_log.record.output_result = SerializeOutput(ret.value)

----------------------------------------------------------------------------
(* The platform without the alarm *)

\* C19: where the platform has no real-time alarm, py_eval installs no
\* signal handler and arms no timer, no deadline ever interrupts the code, a
\* call returns only when its code has run to its end (a call whose code
\* loops for ever does not return), and the result is the outcome of the
\* code itself: ok exactly when the code raised nothing, never the error of
\* the deadline.
C19_NoAlarmNoTimeout ==
    ~posix =>
        /\ handler = "SIG_DFL"
        /\ timer = Off
        /\ fired = "no"
        /\ (pc = "idle" /\ ret.tool = "py_eval") =>
              /\ "loop" \notin Range(call.code.stmts)
              /\ "try_loop" \notin Range(call.code.stmts)
              /\ ret.raised = "none" =>
                    /\ ret.value.v.ok = (fault = "none")
                    /\ ret.value.v.error # <<"Timeout:", " ", "time limit exceeded">>
                    /\ ret.value.v.stderr = buf_err
              /\ ret.raised # "none" => ret.raised = fault

\* A call that took twice its timeout and returned the output of its code.
C19_Witness ==
    /\ ~posix
    /\ Returned
    /\ call.timeout_sec = 1
    /\ ret.value.v.duration_ms = 2 * MsPerTick
    /\ ret.value.v.ok = TRUE
    /\ ret.value.v.stdout = <<"a", "b">>

----------------------------------------------------------------------------
(* Properties of the artifacts *)

\* Every file of directory dir is still there, with the same content.
Kept(dir, dir2) ==
    \A f \in DOMAIN dir : f \in DOMAIN dir2 /\ dir2[f] = dir[f]

C21_Step ==
    /\ Kept(csv_dir, csv_dir')
    /\ Kept(json_dir, json_dir')
    /\ (LogReturned(ret') /\ calls' = calls + 1) =>
          ReturnedFile(ret') \notin DOMAIN csv_dir
    /\ json_dir' # json_dir =>
          \E f \in DOMAIN json_dir' : f \notin DOMAIN json_dir

\* C21: artifacts are written once: no step changes or removes a CSV or JSON
\* file that exists, and every successful call writes its file at a path
\* that did not exist before.
C21_WrittenOnce == [][C21_Step]_vars

----------------------------------------------------------------------------
(* Properties of what py_eval leaves behind *)

\* py_eval is over, whether it returned or raised.
EvalOver == pc = "idle" /\ ret.tool = "py_eval"

\* C22: on a POSIX platform, whenever py_eval is over the interval timer is
\* disarmed and the SIGALRM handler is the one the process had before the
\* call, which is the original one.
C22_HandlerRestored ==
    (posix /\ EvalOver) => (timer = Off /\ handler = "SIG_DFL")

\* C23: whenever py_eval is over, sys.stdout and sys.stderr are the streams
\* they were before the call, which are those of the host.
C23_StreamsRestored ==
    /\ pc = "idle" => (sys_stdout = "host" /\ sys_stderr = "host")
    /\ EvalOver => (sys_stdout = old_targets.out /\ sys_stderr = old_targets.err)

\* A call whose code bound both streams to something else, and returned.
C23_Witness ==
    /\ Returned
    /\ call.code.stmts = <<"rebind_stdout", "print_a", "rebind_stderr">>
    /\ host_out = <<"a">>
    /\ sys_stdout = "host"
    /\ sys_stderr = "host"

\* C24: a result whose error starts with "Timeout:" is returned only if the
\* alarm went off during the call.
C24_TimeoutOnlyOnDeadline ==
    (Returned /\ IsTimeoutError(ret.value.v.error)) => fired # "no"

----------------------------------------------------------------------------
(* Properties of what get_request_log reads *)

\* A get_request_log call that got past the parsing of since_datetime.
LogStep == calls' = calls + 1 /\ ret'.tool = "get_request_log" /\ last_log' # NoLog

\* The file holds a JSON object with a timestamp_iso that is a datetime.
Usable(data) ==
    /\ "json" \in DOMAIN data => data.json = "object"
    /\ "timestamp_iso" \in DOMAIN data
    /\ FromIsoFormat(data.timestamp_iso).ok

\* The usable records of directory dir at or after since_datetime.
UsableSince(dir, since_datetime) ==
    {f \in DOMAIN dir :
        /\ Usable(dir[f])
        /\ Instant(FromIsoFormat(dir[f].timestamp_iso)) >= SinceInstant(since_datetime)}

C25_Step ==
    (LogStep /\ LogReturned(ret')) =>
        LET since == last_log'.record.input_params.since_datetime
            rows == csv_dir'[ReturnedFile(ret')]
            before == UsableSince(requests, since)
        IN  /\ \A f \in before : Row(requests[f]) \in Range(rows)
            /\ Len(rows) = Cardinality(before)
            /\ (last_log'.written /\ last_log'.file \notin DOMAIN requests)
                  => Row(last_log'.record) \notin Range(rows)

\* C25: the rows a get_request_log call returns hold the record of every
\* invocation that was in the log when the call started and is at or after
\* since_datetime, and nothing else: the record of the call itself, written
\* afterwards, is not among them.
C25_ReadsBeforeItLogs == [][C25_Step]_vars

\* A call that asked for everything, found the record of an earlier call
\* and returned that one row, its own record being in the directory now.
C25_Witness ==
    /\ pc = "idle"
    /\ LogReturned(ret)
    /\ last_log.written
    /\ last_log.record.timestamp_iso = IsoFormat(20)
    /\ SinceInstant(last_log.record.input_params.since_datetime) < 0
    /\ Cardinality(DOMAIN requests) = 2
    /\ Len(csv_dir[ReturnedFile(ret)]) = 1
    /\ csv_dir[ReturnedFile(ret)][1].datetime = IsoFormat(19)

C26_Step ==
    (LogStep /\ disk_ok) =>
        /\ LogReturned(ret')
        /\ LET since == last_log'.record.input_params.since_datetime
               rows == csv_dir'[ReturnedFile(ret')]
           IN  Range(rows) = {Row(requests[f]) : f \in UsableSince(requests, since)}

\* C26: a file of requests/ that is not a usable record is passed over: a
\* get_request_log call with a valid since_datetime (the CSV file being
\* writable) succeeds and returns every usable record at or after
\* since_datetime.
C26_BadFilesSkipped == [][C26_Step]_vars

----------------------------------------------------------------------------
(* Properties of the files the search tools leave *)

C27_Success ==
    \E f \in DOMAIN json_dir :
        /\ ret.value = JsonResponse(f, Model(search.tool))
        /\ json_dir[f] = posts[Len(posts)].response

\* C27: a search tool call leaves a JSON file exactly when it reports
\* success: after a call that returned an error string the data directory
\* holds the files it held when the call began, and after a call that
\* returned the success text the file it names holds the response.
C27_FileIffSuccess ==
    (SearchDone /\ ret.raised = "none") =>
        IF IsErrorString(ret.value)
        THEN DOMAIN json_dir = search.files
        ELSE C27_Success

----------------------------------------------------------------------------
(* Properties of save_tool_notes calls that run at the same time *)

\* The positions at which text sub occurs in text s.
Occurrences(sub, s) ==
    {i \in 1..(Len(s) - Len(sub) + 1) : SubSeq(s, i, i + Len(sub) - 1) = sub}

\* The call of thread t has returned success.
SavedBy(t) ==
    /\ savers[t].pc = "done"
    /\ savers[t].result = SavedResult(savers[t].tool_name, savers[t].timestamp)

\* The entry of the call of thread t, as it stands in a file.
EntryOf(t) == WriteText(Entry(savers[t].timestamp, savers[t].markdown_notes))

\* C28: after two save_tool_notes calls for one tool name that ran at the
\* same time have both returned success, the notes file holds both entries
\* in full and one header.
C28_BothEntriesOneHeader ==
    (/\ \A t \in Threads : SavedBy(t)
     /\ savers["T1"].tool_name = savers["T2"].tool_name
     /\ calls = Cardinality(Threads))
        => LET content == notes_dir[NotesFile(savers["T1"].tool_name)]
           IN  /\ \A t \in Threads : Occurrences(EntryOf(t), content) # {}
               /\ Cardinality(Occurrences(WriteText(<<"# Tool Usage Notes: ">>), content)) = 1
               /\ Len(content) = Len(WriteText(Header(savers["T1"].tool_name)))
                                   + Len(EntryOf("T1")) + Len(EntryOf("T2"))

====
